---- MODULE Spec2Model ----
(***************************************************************************)
(* Schedule persistence and reconciliation engine of Crew-Composer         *)
(* (src/src/crew_composer/scheduler.py).                                   *)
(*                                                                         *)
(* SpecStore  : ScheduleStore.upsert / delete run step by step by two      *)
(*              processes (CLI and UI) that may crash at any step.         *)
(* Spec       : SchedulerService (poll loop, reconciliation pass, job      *)
(*              engine) against a store mutated by whole upsert / delete   *)
(*              calls.                                                     *)
(***************************************************************************)
EXTENDS Integers, Sequences, FiniteSets, TLC

VARIABLES
    \* ---- the store's files and lock (shared by every process)
    file,       \* db/schedules.json : [exists, whole, items, mtime]
    tmp,        \* db/schedules.json.tmp, same shape
    lock,       \* holder of db/schedules.json.lock, or None
    clock,      \* datetime.utcnow(), in ticks
    fsNow,      \* the file system's timestamp clock (st_mtime granules)
    \* ---- one store call per process (SpecStore)
    pc,         \* position of each process inside upsert / delete
    op,         \* the call each process is making
    data,       \* items each process read under the lock
    out,        \* items each process is about to write
    ret,        \* what the last call of each process returned
    calls,      \* number of calls started
    crashes,    \* number of crashes
    serial,     \* the calls committed so far, run one at a time in commit order
    lastWrite,  \* the collection before / after the latest write begun
    \* ---- SchedulerService instance
    svc,        \* position of the service thread(s): start, sleep, list, ...
    initial,    \* TRUE while the pass is run_forever's initial sync
    svcMtime,   \* self._file_mtime
    known,      \* self._known_versions : id -> updated_at (0 = not recorded)
    entries,    \* the pass's `entries` (store.list() result)
    pending,    \* the pass's snapshot of get_jobs() still to visit
    idx,        \* index of the add/update loop into entries
    jobs,       \* the engine's job store : a set of jobs, at most one per id
    running,    \* executions in progress
    fired,      \* <<id, version, trigger kind>> of the one-shot executions started
    refired,    \* those started more than once
    consumed,   \* ids whose latest job the engine removed on its own
    deletes,    \* number of delete calls made (Spec)
    pass,       \* bookkeeping of the current / last pass
    log,        \* the run log file _job_func wrote last
    stop,       \* self._stop is set
    engine      \* state of the BackgroundScheduler: stopped / running

vars == <<file, tmp, lock, clock, fsNow, pc, op, data, out, ret, calls, crashes,
          serial, lastWrite, svc, initial, svcMtime, known, entries, pending,
          idx, jobs, running, fired, refired, consumed, deletes, pass, log, stop,
          engine>>

storeVars == <<pc, op, data, out, ret, calls, crashes, serial, lastWrite, tmp, lock>>
svcVars == <<svc, initial, svcMtime, known, entries, pending, idx, jobs, running,
             fired, refired, consumed, deletes, pass, log, stop, engine>>

----------------------------------------------------------------------------
\* Bounds of the model

MaxCalls == 3       \* store calls started in SpecStore
MaxCrashes == 1     \* writer crashes in SpecStore
MaxUpserts == 2     \* upsert calls in Spec
MaxDeletes == 1     \* delete calls in Spec

----------------------------------------------------------------------------
\* Values

\* Python None (JSON null): a value apart from every string, the string
\* "None" that str(None) yields included
None == "null"
\* Optional[int] and Optional[Dict]: absent, or one value
Nothing == <<>>
Some(x) == <<x>>
Procs == {"cli", "ui"}
Ids == {"s1", "s2"}

\* ScheduleEntry (pydantic model) built by a caller: id, payload fields, and
\* created_at / updated_at defaulting to utcnow() at construction.
ScheduleEntry(id, p, now) ==
    [id |-> id, name |-> p.name, crew |-> p.crew, trigger |-> p.trigger,
     run_at |-> p.run_at, interval_seconds |-> p.interval_seconds,
     cron |-> p.cron, timezone |-> None, enabled |-> p.enabled,
     inputs |-> p.inputs, created_at |-> now, updated_at |-> now]

\* cron mappings: a set of <<field, expression>> pairs
CronHourly == {<<"minute", "0">>, <<"hour", "*">>}
CronEmpty == {}

\* inputs mappings: a set of <<key, value>> pairs
TopicX == {<<"topic", "X">>}
TopicY == {<<"topic", "Y">>}
NoInputs == {}

\* The payloads callers submit in Spec.
Payloads ==
    { [name |-> "once", crew |-> None, trigger |-> "date", run_at |-> "2025-01-01T00:00:00",
       interval_seconds |-> Nothing, cron |-> Nothing, enabled |-> TRUE, inputs |-> TopicX],
      [name |-> "every", crew |-> None, trigger |-> "interval", run_at |-> None,
       interval_seconds |-> Some(60), cron |-> Nothing, enabled |-> TRUE, inputs |-> TopicX],
      [name |-> "every", crew |-> "crewB", trigger |-> "interval", run_at |-> None,
       interval_seconds |-> Some(30), cron |-> Nothing, enabled |-> TRUE, inputs |-> TopicY],
      [name |-> "every", crew |-> None, trigger |-> "interval", run_at |-> None,
       interval_seconds |-> Some(0), cron |-> Nothing, enabled |-> TRUE, inputs |-> TopicX],
      [name |-> "off", crew |-> None, trigger |-> "interval", run_at |-> None,
       interval_seconds |-> Some(60), cron |-> Nothing, enabled |-> FALSE, inputs |-> TopicX],
      [name |-> "hourly", crew |-> None, trigger |-> "cron", run_at |-> None,
       interval_seconds |-> Nothing, cron |-> Some(CronHourly), enabled |-> TRUE, inputs |-> NoInputs],
      [name |-> "hourly", crew |-> None, trigger |-> "cron", run_at |-> None,
       interval_seconds |-> Nothing, cron |-> Some(CronEmpty), enabled |-> TRUE, inputs |-> NoInputs] }

\* The payload each process submits in SpecStore (the two differ in every
\* payload field, so a record mixing them would be recognisable).
PayloadOf(p) ==
    IF p = "cli"
    THEN [name |-> "every", crew |-> None, trigger |-> "interval", run_at |-> None,
          interval_seconds |-> Some(60), cron |-> Nothing, enabled |-> TRUE, inputs |-> TopicX]
    ELSE [name |-> "once", crew |-> "crewB", trigger |-> "date",
          run_at |-> "2025-01-01T00:00:00", interval_seconds |-> Nothing, cron |-> Nothing,
          enabled |-> FALSE, inputs |-> TopicY]

----------------------------------------------------------------------------
\* ScheduleStore: pure parts

Missing == [exists |-> FALSE, whole |-> TRUE, items |-> <<>>, mtime |-> 0]

_read_salvaging(f) == IF f.exists THEN f.items ELSE <<>>

\* _read: a missing file, or one that does not parse, reads as no schedules.
_read(f) == IF f.exists /\ f.whole THEN f.items ELSE <<>>

\* Items of the "schedules" array that are not schedule entries: a JSON
\* string, and an object that lacks the required fields of ScheduleEntry.
NonDict == [nondict |-> "junk"]
Partial(id) == [id |-> id, note |-> "no name, no trigger"]

\* isinstance(it, dict): only a dict has .get
IsDict(it) == "nondict" \notin DOMAIN it

\* ScheduleEntry.model_validate(item) succeeds
Valid(it) ==
    DOMAIN it = {"id", "name", "crew", "trigger", "run_at", "interval_seconds", "cron",
                 "timezone", "enabled", "inputs", "created_at", "updated_at"}

\* upsert's loop evaluates it.get("id") on every item up to and including the
\* first match: an item that is not a dict raises AttributeError there.
upsert_raises(items, id) ==
    \E i \in 1..Len(items) :
        /\ ~IsDict(items[i])
        /\ \A j \in 1..(i - 1) : IsDict(items[j]) /\ items[j].id # id

\* delete's comprehension evaluates it.get("id") on every item.
delete_raises(items) == \E i \in 1..Len(items) : ~IsDict(items[i])

\* index of the first record with this id, 0 when there is none
FirstIndex(items, id) ==
    IF \E i \in 1..Len(items) : items[i].id = id
    THEN CHOOSE i \in 1..Len(items) :
            /\ items[i].id = id
            /\ \A j \in 1..(i - 1) : items[j].id # id
    ELSE 0

upsert_items_append(items, entry) == Append(items, entry)

\* upsert's loop: replace the first record with the entry's id, else append.
upsert_items(items, entry) ==
    LET i == FirstIndex(items, entry.id)
    IN  IF i # 0 THEN [items EXCEPT ![i] = entry] ELSE Append(items, entry)

\* delete's comprehension: every record with another id, in order.
delete_items(items, id) == SelectSeq(items, LAMBDA it : it.id # id)

\* The effect of a whole call on a collection.
Apply(o, items) ==
    IF o.kind = "upsert" THEN upsert_items(items, o.entry) ELSE delete_items(items, o.id)

----------------------------------------------------------------------------
\* ScheduleStore.upsert / delete, step by step (SpecStore)

\* the entry argument of a call that takes none
NoEntry ==
    [id |-> None, name |-> None, crew |-> None, trigger |-> None, run_at |-> None,
     interval_seconds |-> Nothing, cron |-> Nothing, timezone |-> None, enabled |-> FALSE,
     inputs |-> {}, created_at |-> 0, updated_at |-> 0]

\* no call in progress
NoOp == [kind |-> "none", id |-> None, entry |-> NoEntry]

\* what a call returned: nothing yet, delete's `changed`, upsert's entry,
\* list's entries, an exception ("error"), or nothing because the process died
NoRet == [kind |-> "none", changed |-> FALSE, entry |-> NoEntry, items |-> <<>>]

LockAlwaysFree == TRUE

\* FileLock: acquire blocks while another holder has the lock file.
LockFree == lock = None

\* A process starts upsert(entry) or delete(id).
Call(p) ==
    /\ pc[p] = "idle"
    /\ calls < MaxCalls
    /\ \E id \in Ids :
         \/ op' = [op EXCEPT ![p] = [kind |-> "upsert", id |-> id,
                                     entry |-> ScheduleEntry(id, PayloadOf(p), clock)]]
         \/ op' = [op EXCEPT ![p] = [kind |-> "delete", id |-> id, entry |-> NoEntry]]
    /\ calls' = calls + 1
    /\ pc' = [pc EXCEPT ![p] = "acquire"]
    /\ UNCHANGED <<file, tmp, lock, clock, fsNow, data, out, ret, crashes, serial,
                   lastWrite, svcVars>>

\* `with self.lock:` entered.
Acquire(p) ==
    /\ pc[p] = "acquire"
    /\ LockFree
    /\ lock' = p
    /\ pc' = [pc EXCEPT ![p] = "read"]
    /\ UNCHANGED <<file, tmp, clock, fsNow, op, data, out, ret, calls, crashes, serial,
                   lastWrite, svcVars>>

upsert_read_unstamped(p) ==
    /\ pc[p] = "read"
    /\ op[p].kind = "upsert"
    /\ data' = [data EXCEPT ![p] = _read(file)]
    /\ out' = [out EXCEPT ![p] = upsert_items(_read(file), op[p].entry)]
    /\ clock' = clock + 1
    /\ pc' = [pc EXCEPT ![p] = "write"]
    /\ UNCHANGED <<file, tmp, lock, fsNow, op, ret, calls, crashes, serial, lastWrite,
                   svcVars>>

upsert_read_keep_created(p) ==
    /\ pc[p] = "read"
    /\ op[p].kind = "upsert"
    /\ LET stamped == [op[p].entry EXCEPT !.updated_at = clock + 1]
           i == FirstIndex(_read(file), stamped.id)
           merged == IF i # 0
                     THEN [stamped EXCEPT !.created_at = _read(file)[i].created_at]
                     ELSE stamped
       IN  /\ op' = [op EXCEPT ![p].entry = stamped]
           /\ data' = [data EXCEPT ![p] = _read(file)]
           /\ out' = [out EXCEPT ![p] = upsert_items(_read(file), merged)]
    /\ clock' = clock + 1
    /\ pc' = [pc EXCEPT ![p] = "write"]
    /\ UNCHANGED <<file, tmp, lock, fsNow, ret, calls, crashes, serial, lastWrite, svcVars>>

\* upsert: _read, stamp updated_at, replace or append.
upsert_read(p) ==
    /\ pc[p] = "read"
    /\ op[p].kind = "upsert"
    /\ LET stamped == [op[p].entry EXCEPT !.updated_at = clock + 1]
       IN  /\ op' = [op EXCEPT ![p].entry = stamped]
           /\ data' = [data EXCEPT ![p] = _read(file)]
           /\ IF upsert_raises(_read(file), stamped.id)
              THEN /\ ret' = [ret EXCEPT ![p] = [NoRet EXCEPT !.kind = "error"]]
                   /\ pc' = [pc EXCEPT ![p] = "release"]
                   /\ UNCHANGED out
              ELSE /\ out' = [out EXCEPT ![p] = upsert_items(_read(file), stamped)]
                   /\ pc' = [pc EXCEPT ![p] = "write"]
                   /\ UNCHANGED ret
    /\ clock' = clock + 1
    /\ UNCHANGED <<file, tmp, lock, fsNow, calls, crashes, serial, lastWrite, svcVars>>

delete_read_always_write(p) ==
    /\ pc[p] = "read"
    /\ op[p].kind = "delete"
    /\ LET items == _read(file)
           new_items == delete_items(items, op[p].id)
           changed == Len(new_items) # Len(items)
       IN  /\ data' = [data EXCEPT ![p] = items]
           /\ out' = [out EXCEPT ![p] = new_items]
           /\ ret' = [ret EXCEPT ![p] = [NoRet EXCEPT !.kind = "delete", !.changed = changed]]
           /\ pc' = [pc EXCEPT ![p] = "write"]
    /\ UNCHANGED <<file, tmp, lock, clock, fsNow, op, calls, crashes, serial, lastWrite,
                   svcVars>>

\* delete: _read, filter, write only if something changed.
delete_read(p) ==
    /\ pc[p] = "read"
    /\ op[p].kind = "delete"
    /\ IF delete_raises(_read(file))
       THEN /\ data' = [data EXCEPT ![p] = _read(file)]
            /\ ret' = [ret EXCEPT ![p] = [NoRet EXCEPT !.kind = "error"]]
            /\ pc' = [pc EXCEPT ![p] = "release"]
            /\ UNCHANGED out
       ELSE
       LET items == _read(file)
           new_items == delete_items(items, op[p].id)
           changed == Len(new_items) # Len(items)
       IN  /\ data' = [data EXCEPT ![p] = items]
           /\ out' = [out EXCEPT ![p] = new_items]
           /\ ret' = [ret EXCEPT ![p] = [NoRet EXCEPT !.kind = "delete", !.changed = changed]]
           /\ pc' = [pc EXCEPT ![p] = IF changed THEN "write" ELSE "release"]
    /\ UNCHANGED <<file, tmp, lock, clock, fsNow, op, calls, crashes, serial, lastWrite,
                   svcVars>>

_write_open_in_place(p) ==
    /\ pc[p] = "write"
    /\ file' = [exists |-> TRUE, whole |-> FALSE, items |-> <<>>, mtime |-> fsNow]
    /\ lastWrite' = [pre |-> data[p], post |-> out[p]]
    /\ pc' = [pc EXCEPT ![p] = "writing"]
    /\ UNCHANGED <<tmp, lock, clock, fsNow, op, data, out, ret, calls, crashes, serial,
                   svcVars>>

\* _write, tmp.write_text: the temporary file is created / truncated ...
_write_open(p) ==
    /\ pc[p] = "write"
    /\ tmp' = [exists |-> TRUE, whole |-> FALSE, items |-> <<>>, mtime |-> fsNow]
    /\ lastWrite' = [pre |-> data[p], post |-> out[p]]
    /\ pc' = [pc EXCEPT ![p] = "writing"]
    /\ UNCHANGED <<file, lock, clock, fsNow, op, data, out, ret, calls, crashes, serial,
                   svcVars>>

\* ... and filled with the whole rendered collection. The file system stamps
\* it with its clock, which may or may not have advanced since the last write.
_write_close(p) ==
    /\ pc[p] = "writing"
    /\ \E adv \in {0, 1} :
         /\ fsNow' = fsNow + adv
         /\ tmp' = [exists |-> TRUE, whole |-> TRUE, items |-> out[p], mtime |-> fsNow + adv]
    /\ pc' = [pc EXCEPT ![p] = "replace"]
    /\ UNCHANGED <<file, lock, clock, op, data, out, ret, calls, crashes, serial,
                   lastWrite, svcVars>>

\* _write, tmp.replace(self.path): the rename.
_write_replace(p) ==
    /\ pc[p] = "replace"
    /\ tmp.exists
    /\ file' = tmp
    /\ tmp' = Missing
    /\ serial' = Apply(op[p], serial)
    /\ ret' = [ret EXCEPT ![p] = IF op[p].kind = "upsert"
                                  THEN [NoRet EXCEPT !.kind = "upsert", !.entry = op[p].entry]
                                  ELSE [NoRet EXCEPT !.kind = "delete", !.changed = TRUE]]
    /\ pc' = [pc EXCEPT ![p] = "release"]
    /\ UNCHANGED <<lock, clock, fsNow, op, data, out, calls, crashes, lastWrite, svcVars>>

_write_fails_torn(p) ==
    /\ pc[p] \in {"write", "writing", "replace"}
    /\ file' = [exists |-> TRUE, whole |-> FALSE, items |-> <<>>, mtime |-> fsNow]
    /\ ret' = [ret EXCEPT ![p] = [NoRet EXCEPT !.kind = "error"]]
    /\ pc' = [pc EXCEPT ![p] = "release"]
    /\ UNCHANGED <<tmp, lock, clock, fsNow, op, data, out, calls, crashes, serial,
                   lastWrite, svcVars>>

\* _write raises (OSError out of tmp.write_text, before or while the temporary
\* file is written, or out of tmp.replace): the exception leaves upsert /
\* delete through the `with` block; the temporary file stays as it is.
_write_fails(p) ==
    /\ pc[p] \in {"write", "writing", "replace"}
    /\ ret' = [ret EXCEPT ![p] = [NoRet EXCEPT !.kind = "error"]]
    /\ pc' = [pc EXCEPT ![p] = "release"]
    /\ UNCHANGED <<file, tmp, lock, clock, fsNow, op, data, out, calls, crashes, serial,
                   lastWrite, svcVars>>

ReleaseKeepsLock(p) ==
    /\ pc[p] = "release"
    /\ pc' = [pc EXCEPT ![p] = "idle"]
    /\ op' = [op EXCEPT ![p] = NoOp]
    /\ data' = [data EXCEPT ![p] = <<>>]
    /\ out' = [out EXCEPT ![p] = <<>>]
    /\ UNCHANGED <<file, tmp, lock, clock, fsNow, ret, calls, crashes, serial, lastWrite,
                   svcVars>>

\* `with self.lock:` left; the call returns.
Release(p) ==
    /\ pc[p] = "release"
    /\ lock' = IF lock = p THEN None ELSE lock
    /\ pc' = [pc EXCEPT ![p] = "idle"]
    /\ op' = [op EXCEPT ![p] = NoOp]
    /\ data' = [data EXCEPT ![p] = <<>>]
    /\ out' = [out EXCEPT ![p] = <<>>]
    /\ UNCHANGED <<file, tmp, clock, fsNow, ret, calls, crashes, serial, lastWrite, svcVars>>

\* The process dies inside the call; the OS drops its lock. A later call by
\* the same name is a new process.
Crash(p) ==
    /\ pc[p] # "idle"
    /\ crashes < MaxCrashes
    /\ crashes' = crashes + 1
    /\ lock' = IF lock = p THEN None ELSE lock
    /\ pc' = [pc EXCEPT ![p] = "idle"]
    /\ op' = [op EXCEPT ![p] = NoOp]
    /\ data' = [data EXCEPT ![p] = <<>>]
    /\ out' = [out EXCEPT ![p] = <<>>]
    /\ ret' = [ret EXCEPT ![p] = [NoRet EXCEPT !.kind = "crashed"]]
    /\ UNCHANGED <<file, tmp, clock, fsNow, calls, serial, lastWrite, svcVars>>

\* A process starts list().
CallList(p) ==
    /\ pc[p] = "idle"
    /\ calls < MaxCalls
    /\ op' = [op EXCEPT ![p] = [kind |-> "list", id |-> None, entry |-> NoEntry]]
    /\ calls' = calls + 1
    /\ pc' = [pc EXCEPT ![p] = "acquire"]
    /\ UNCHANGED <<file, tmp, lock, clock, fsNow, data, out, ret, crashes, serial,
                   lastWrite, svcVars>>

\* list: _read under the lock; every record that validates is returned.
list_read(p) ==
    /\ pc[p] = "read"
    /\ op[p].kind = "list"
    /\ data' = [data EXCEPT ![p] = _read(file)]
    /\ ret' = [ret EXCEPT ![p] = [NoRet EXCEPT !.kind = "list",
                                               !.items = SelectSeq(_read(file), Valid)]]
    /\ pc' = [pc EXCEPT ![p] = "release"]
    /\ UNCHANGED <<file, tmp, lock, clock, fsNow, op, out, calls, crashes, serial,
                   lastWrite, svcVars>>

\* no run log written yet
NoLog == [id |-> None, ok |-> TRUE, out |-> "", again |-> FALSE]

NoPass == [n |-> 0, seen |-> <<>>, prev |-> <<>>, changed |-> FALSE,
           added |-> {}, kept |-> {}, last |-> "none"]

InitStore ==
    /\ file = Missing
    /\ tmp = Missing
    /\ lock = None
    /\ clock = 0
    /\ fsNow = 1
    /\ pc = [p \in Procs |-> "idle"]
    /\ op = [p \in Procs |-> NoOp]
    /\ data = [p \in Procs |-> <<>>]
    /\ out = [p \in Procs |-> <<>>]
    /\ ret = [p \in Procs |-> NoRet]
    /\ calls = 0
    /\ crashes = 0
    /\ serial = <<>>
    /\ lastWrite = [pre |-> <<>>, post |-> <<>>]

\* SchedulerService.__init__
InitService ==
    /\ svc = "start"
    /\ initial = TRUE
    /\ svcMtime = 0
    /\ known = [i \in Ids |-> 0]
    /\ entries = <<>>
    /\ pending = {}
    /\ idx = 1
    /\ jobs = {}
    /\ running = {}
    /\ fired = {}
    /\ refired = {}
    /\ consumed = {}
    /\ deletes = 0
    /\ pass = NoPass
    /\ log = NoLog
    /\ stop = FALSE
    /\ engine = "stopped"

Init == InitStore /\ InitService

NextStore ==
    \E p \in Procs :
        \/ Call(p)
        \/ Acquire(p)
        \/ upsert_read(p)
        \/ delete_read(p)
        \/ _write_open(p)
        \/ _write_close(p)
        \/ _write_replace(p)
        \/ Release(p)
        \/ Crash(p)

SpecStore == Init /\ [][NextStore]_vars

\* Readers next to the writers.
NextStoreList ==
    \/ NextStore
    \/ \E p \in Procs : CallList(p) \/ list_read(p)

SpecStoreList == Init /\ [][NextStoreList]_vars

\* A file that exists and does not parse as a whole (here: the truncated
\* rendering of a one-record collection).
Garbage ==
    [exists |-> TRUE, whole |-> FALSE,
     items |-> <<ScheduleEntry("s1", PayloadOf("cli"), 0)>>, mtime |-> 1]

\* The store is first used over a missing or an unparsable file.
InitBadFile ==
    /\ file \in {Missing, Garbage}
    /\ tmp = Missing
    /\ lock = None
    /\ clock = 0
    /\ fsNow = 1
    /\ pc = [p \in Procs |-> "idle"]
    /\ op = [p \in Procs |-> NoOp]
    /\ data = [p \in Procs |-> <<>>]
    /\ out = [p \in Procs |-> <<>>]
    /\ ret = [p \in Procs |-> NoRet]
    /\ calls = 0
    /\ crashes = 0
    /\ serial = <<>>
    /\ lastWrite = [pre |-> <<>>, post |-> <<>>]
    /\ InitService

SpecBadFile == InitBadFile /\ [][NextStoreList]_vars

\* The store is first used over a file that holds items list() drops, alone or
\* next to a schedule entry.
MalformedFiles ==
    { [exists |-> TRUE, whole |-> TRUE, items |-> items, mtime |-> 1] :
        items \in { <<NonDict>>,
                    <<Partial("s2")>>,
                    <<ScheduleEntry("s1", PayloadOf("ui"), 0), NonDict>>,
                    <<NonDict, ScheduleEntry("s1", PayloadOf("ui"), 0)>>,
                    <<Partial("s2"), ScheduleEntry("s1", PayloadOf("ui"), 0)>> } }

InitMalformed ==
    /\ file \in MalformedFiles
    /\ tmp = Missing
    /\ lock = None
    /\ clock = 0
    /\ fsNow = 1
    /\ pc = [p \in Procs |-> "idle"]
    /\ op = [p \in Procs |-> NoOp]
    /\ data = [p \in Procs |-> <<>>]
    /\ out = [p \in Procs |-> <<>>]
    /\ ret = [p \in Procs |-> NoRet]
    /\ calls = 0
    /\ crashes = 0
    /\ serial = file.items
    /\ lastWrite = [pre |-> <<>>, post |-> file.items]
    /\ InitService

\* Calls that run to completion: every process inside a call keeps taking
\* steps, and FileLock.acquire (timeout -1) retries until it has the lock.
NextStoreLive ==
    \E p \in Procs :
        \/ Call(p)
        \/ CallList(p)
        \/ Acquire(p)
        \/ upsert_read(p)
        \/ delete_read(p)
        \/ list_read(p)
        \/ _write_open(p)
        \/ _write_close(p)
        \/ _write_replace(p)
        \/ Release(p)

InCall(p) ==
    \/ upsert_read(p)
    \/ delete_read(p)
    \/ list_read(p)
    \/ _write_open(p)
    \/ _write_close(p)
    \/ _write_replace(p)
    \/ Release(p)

SpecStoreLive ==
    /\ Init
    /\ [][NextStoreLive]_vars
    /\ \A p \in Procs : WF_vars(Acquire(p)) /\ WF_vars(InCall(p))

SpecMalformed == InitMalformed /\ [][NextStoreLive]_vars

\* Calls whose write may fail.
NextStoreFail ==
    \/ NextStoreLive
    \/ \E p \in Procs : _write_fails(p)

SpecStoreFail ==
    /\ Init
    /\ [][NextStoreFail]_vars
    /\ \A p \in Procs : WF_vars(Acquire(p)) /\ WF_vars(InCall(p))

----------------------------------------------------------------------------
\* Whole store calls, as the service sees them (Spec)

\* os.stat(path).st_mtime, or 0.0 when the file does not exist
Stat(f) == IF f.exists THEN f.mtime ELSE 0

\* ScheduleStore.list: every record that validates as a ScheduleEntry
list(f) == SelectSeq(_read(f), Valid)

\* upsert_schedule(entry): the whole locked read-modify-write.
Upsert(id, p) ==
    /\ clock < MaxUpserts
    /\ LET entry == [ScheduleEntry(id, p, clock) EXCEPT !.updated_at = clock + 1]
       IN  \E adv \in {0, 1} :
              /\ file' = [exists |-> TRUE, whole |-> TRUE,
                          items |-> upsert_items(_read(file), entry),
                          mtime |-> fsNow + adv]
              /\ fsNow' = fsNow + adv
    /\ clock' = clock + 1
    /\ UNCHANGED <<storeVars, svcVars>>

\* delete_schedule(id): the whole locked read-modify-write.
Delete(id) ==
    /\ deletes < MaxDeletes
    /\ deletes' = deletes + 1
    /\ LET items == _read(file)
           new_items == delete_items(items, id)
       IN  IF Len(new_items) # Len(items)
           THEN \E adv \in {0, 1} :
                   /\ file' = [exists |-> TRUE, whole |-> TRUE, items |-> new_items,
                               mtime |-> fsNow + adv]
                   /\ fsNow' = fsNow + adv
           ELSE UNCHANGED <<file, fsNow>>
    /\ UNCHANGED <<storeVars, clock, svc, initial, svcMtime, known, entries, pending, idx,
                   jobs, running, fired, refired, consumed, pass,
                   log, stop, engine>>

----------------------------------------------------------------------------
\* Trigger Builder

Err == [kind |-> "error", run_date |-> "", seconds |-> 0, fields |-> {}]

\* datetime.fromisoformat accepts these strings
IsoStrings == {"2025-01-01T00:00:00"}

\* CronTrigger accepts these field names and expressions
CronFieldNames == {"year", "month", "day", "week", "day_of_week", "hour", "minute", "second"}
CronExpressions == {"0", "*"}

_build_trigger_zero_ok(e) ==
    IF e.trigger = "date"
    THEN IF e.run_at = None \/ e.run_at = "" \/ e.run_at \notin IsoStrings
         THEN Err
         ELSE [kind |-> "date", run_date |-> e.run_at, seconds |-> 0, fields |-> {}]
    ELSE IF e.trigger = "interval"
    THEN IF e.interval_seconds = Nothing
         THEN Err
         ELSE IF e.interval_seconds[1] < 0
         THEN Err
         ELSE [kind |-> "interval", run_date |-> "", seconds |-> e.interval_seconds[1],
               fields |-> {}]
    ELSE IF e.trigger = "cron"
    THEN IF e.cron = Nothing
         THEN Err
         ELSE IF e.cron[1] = {}
         THEN Err
         ELSE IF \A kv \in e.cron[1] : kv[1] \in CronFieldNames /\ kv[2] \in CronExpressions
         THEN [kind |-> "cron", run_date |-> "", seconds |-> 0, fields |-> e.cron[1]]
         ELSE Err
    ELSE Err

\* SchedulerService._build_trigger: the trigger, or Err where the code raises.
_build_trigger(e) ==
    IF e.trigger = "date"
    THEN IF e.run_at = None \/ e.run_at = "" \/ e.run_at \notin IsoStrings
         THEN Err
         ELSE [kind |-> "date", run_date |-> e.run_at, seconds |-> 0, fields |-> {}]
    ELSE IF e.trigger = "interval"
    THEN IF e.interval_seconds = Nothing
         THEN Err
         ELSE IF e.interval_seconds[1] = 0 \/ e.interval_seconds[1] <= 0
         THEN Err
         ELSE [kind |-> "interval", run_date |-> "", seconds |-> e.interval_seconds[1],
               fields |-> {}]
    ELSE IF e.trigger = "cron"
    THEN IF e.cron = Nothing
         THEN Err
         ELSE IF e.cron[1] = {}
         THEN Err
         ELSE IF \A kv \in e.cron[1] : kv[1] \in CronFieldNames /\ kv[2] \in CronExpressions
         THEN [kind |-> "cron", run_date |-> "", seconds |-> 0, fields |-> e.cron[1]]
         ELSE Err
    ELSE Err

Builds(e) == _build_trigger(e) # Err

----------------------------------------------------------------------------
\* The job engine (BackgroundScheduler)

\* scheduler.get_job(id) is not None
HasJob(id) == \E j \in jobs : j.id = id

JobOf(id) == CHOOSE j \in jobs : j.id = id

\* the job store without the job of this id
Without(id) == {j \in jobs : j.id # id}

\* add_job(id=e.id, func=self._job_func, trigger=trigger,
\*         args=[e.id, e.crew, e.inputs or {}], replace_existing=True, ...)
NewJob(e) ==
    [id |-> e.id, trigger |-> _build_trigger(e), crew |-> e.crew, inputs |-> e.inputs,
     ver |-> e.updated_at]

IsRunningThisJob(id) == \E x \in running, j \in jobs : x.id = id /\ j.id = id /\ x.ver = j.ver

\* the executor's instance count of this job id is at max_instances (1); the
\* count is kept per job id and outlives the job's removal from the job store
IsRunning(id) == \E x \in running : x.id = id

\* _run_crew_job: kickoff(inputs=inputs or {"topic": "Hello World"})
kickoff_inputs(inputs) == IF inputs = {} THEN {<<"topic", "Hello World">>} ELSE inputs

\* The engine finds the job due. A run time later than misfire_grace_time is
\* skipped; with an instance of the id still running the firing is dropped
\* (max_instances=1); otherwise _job_func starts. A job whose trigger has no
\* next fire time (date) is then removed from the job store.
Fire(id) ==
    /\ svc \notin {"start", "stopped"}
    /\ engine = "running"
    /\ HasJob(id)
    /\ LET j == JobOf(id)
       IN  /\ \E late \in BOOLEAN :
                IF late \/ IsRunning(id)
                THEN UNCHANGED <<running, fired, refired>>
                ELSE /\ running' = running \cup {[id |-> id, crew |-> j.crew,
                                                  inputs |-> j.inputs, ver |-> j.ver,
                                                  kickoff |-> kickoff_inputs(j.inputs)]}
                     /\ fired' = IF j.trigger.kind = "date"
                                 THEN fired \cup {<<id, j.ver, j.trigger.kind>>}
                                 ELSE fired
                     /\ refired' = IF <<id, j.ver, j.trigger.kind>> \in fired
                                   THEN refired \cup {<<id, j.ver, j.trigger.kind>>}
                                   ELSE refired
           /\ IF j.trigger.kind = "date"
              THEN jobs' = Without(id) /\ consumed' = consumed \cup {id}
              ELSE UNCHANGED <<jobs, consumed>>
    /\ UNCHANGED <<file, clock, fsNow, storeVars, svc, initial, svcMtime, known, entries,
                   pending, idx, deletes, pass,
                   log, stop, engine>>

Traceback == "traceback"

_run_crew_job_no_trace(crew_name, inputs, raises) ==
    IF raises THEN [ok |-> FALSE, out |-> ""] ELSE [ok |-> TRUE, out |-> "result"]

\* _run_crew_job: the crew's result, or, when anything in loading or running
\* the crew raises, not-ok with the formatted traceback.
_run_crew_job(crew_name, inputs, raises) ==
    IF raises THEN [ok |-> FALSE, out |-> Traceback] ELSE [ok |-> TRUE, out |-> "result"]

\* log_dir / f"schedule_{schedule_id}_{ts}.log" with ts = utcnow() formatted
\* "%Y%m%d-%H%M%S": the file is the one the previous firing wrote when that
\* firing had the same id and utcnow() is still within the same second.
SameLogFile(prev, id, same_second) == prev.id = id /\ same_second

\* _job_func runs the crew, writes the run log (write_text replaces a file of
\* the same name) and returns.
_job_func(id, same_second) ==
    /\ IsRunning(id)
    /\ \E x \in running, raises \in BOOLEAN :
          /\ x.id = id
          /\ LET r == _run_crew_job(x.crew, x.inputs, raises)
             IN  log' = [id |-> id, ok |-> r.ok, out |-> r.out,
                         again |-> SameLogFile(log, id, same_second)]
    /\ running' = {x \in running : x.id # id}
    /\ UNCHANGED <<file, clock, fsNow, storeVars, svc, initial, svcMtime, known, entries,
                   pending, idx, jobs, fired, refired, consumed, deletes, pass,
                   stop, engine>>

\* An execution that completes in a second of its own: utcnow() has moved on
\* since the previous log file was written.
Finish(id) == _job_func(id, FALSE)

\* An execution that completes within the second in which the previous log
\* file was written.
FinishSoon(id) == _job_func(id, TRUE)

----------------------------------------------------------------------------
\* SchedulerService: run_forever, _watch_loop, _sync_jobs_from_store

\* current_ids = {e.id for e in entries if e.enabled}
current_ids(es) == {es[i].id : i \in {k \in 1..Len(es) : es[k].enabled}}

\* needs_update = self._known_versions.get(e.id) != e.updated_at
needs_update(e) == known[e.id] # e.updated_at

LoopDoneEarly == idx >= Len(entries)

\* the add/update loop has visited every entry
LoopDone == idx > Len(entries)

AfterInvalidBreak(i) == Len(entries) + 1

\* `continue` after a trigger that failed to build
AfterInvalid(i) == i + 1

\* An exception leaves _sync_jobs_from_store: _watch_loop swallows it and
\* sleeps; out of the initial sync it ends run_forever.
Abort ==
    /\ svc' = IF initial THEN "stopped" ELSE "sleep"
    /\ pass' = [pass EXCEPT !.last = "aborted", !.n = 0]

\* run_forever: scheduler.start(), then the initial sync.
Start ==
    /\ svc = "start"
    /\ svc' = "list"
    /\ engine' = "running"
    /\ UNCHANGED <<file, clock, fsNow, storeVars, initial, svcMtime, known, entries, pending,
                   idx, jobs, running, fired, refired, consumed, deletes, pass,
                   log, stop>>

WakeIgnoringStop ==
    /\ svc = "sleep"
    /\ svc' = "tick"
    /\ UNCHANGED <<file, clock, fsNow, storeVars, initial, svcMtime, known, entries, pending,
                   idx, jobs, running, fired, refired, consumed, deletes, pass,
                   log, stop, engine>>

\* _watch_loop: self._stop.wait(poll_seconds) returns (at once when the event
\* is set) and `while not self._stop.is_set()` is evaluated.
Wake ==
    /\ svc = "sleep"
    /\ svc' = IF stop THEN "exited" ELSE "tick"
    /\ UNCHANGED <<file, clock, fsNow, storeVars, initial, svcMtime, known, entries, pending,
                   idx, jobs, running, fired, refired, consumed, deletes, pass,
                   log, stop, engine>>

TickAlwaysSyncing ==
    /\ svc = "tick"
    /\ svcMtime' = Stat(file)
    /\ svc' = "list"
    /\ UNCHANGED <<file, clock, fsNow, storeVars, initial, known, entries, pending, idx,
                   jobs, running, fired, refired, consumed, deletes, pass,
                   log, stop, engine>>

\* _watch_loop, the loop body: stat the file; on a changed mtime remember it
\* and start a pass, otherwise wait again.
Tick ==
    /\ svc = "tick"
    /\ IF Stat(file) # svcMtime
       THEN /\ svcMtime' = Stat(file)
            /\ svc' = "list"
       ELSE /\ svc' = "sleep"
            /\ UNCHANGED svcMtime
    /\ UNCHANGED <<file, clock, fsNow, storeVars, initial, known, entries, pending, idx,
                   jobs, running, fired, refired, consumed, deletes, pass,
                   log, stop, engine>>

\* run_forever, `finally`: self._stop.set() after the KeyboardInterrupt that
\* ends the main thread's sleep loop.
Interrupt ==
    /\ ~initial
    /\ svc # "stopped"
    /\ ~stop
    /\ stop' = TRUE
    /\ UNCHANGED <<file, clock, fsNow, storeVars, svc, initial, svcMtime, known, entries,
                   pending, idx, jobs, running, fired, refired, consumed, deletes, pass,
                   log, engine>>

\* run_forever, `finally`: self.scheduler.shutdown(wait=False). The engine
\* stops firing and its (memory) job store is emptied; executions in progress
\* are left running.
Shutdown ==
    /\ stop
    /\ engine = "running"
    /\ engine' = "stopped"
    /\ jobs' = {}
    /\ UNCHANGED <<file, clock, fsNow, storeVars, svc, initial, svcMtime, known, entries,
                   pending, idx, running, fired, refired, consumed, deletes, pass, log, stop>>

\* entries = self.store.list()
sync_list ==
    /\ svc = "list"
    /\ entries' = list(file)
    /\ pass' = [pass EXCEPT !.seen = _read(file), !.changed = FALSE, !.added = {},
                            !.kept = {}, !.last = "running"]
    /\ svc' = "getjobs"
    /\ UNCHANGED <<file, clock, fsNow, storeVars, initial, svcMtime, known, pending, idx,
                   jobs, running, fired, refired, consumed, deletes,
                   log, stop, engine>>

\* list(self.scheduler.get_jobs()): the jobs the first loop will remove
sync_get_jobs ==
    /\ svc = "getjobs"
    /\ pending' = {j.id : j \in jobs} \ current_ids(entries)
    /\ svc' = "remove"
    /\ UNCHANGED <<file, clock, fsNow, storeVars, initial, svcMtime, known, entries, idx,
                   jobs, running, fired, refired, consumed, deletes, pass,
                   log, stop, engine>>

\* first loop: remove_job for a job that no longer exists or is disabled;
\* remove_job raises JobLookupError when the engine no longer has the job.
sync_remove ==
    /\ svc = "remove"
    /\ IF pending = {}
       THEN /\ svc' = "visit"
            /\ idx' = 1
            /\ UNCHANGED <<pending, jobs, pass>>
       ELSE \E id \in pending :
               IF HasJob(id)
               THEN /\ jobs' = Without(id)
                    /\ pending' = pending \ {id}
                    /\ pass' = [pass EXCEPT !.changed = TRUE]
                    /\ UNCHANGED <<svc, idx>>
               ELSE /\ Abort
                    /\ UNCHANGED <<pending, jobs, idx>>
    /\ UNCHANGED <<file, clock, fsNow, storeVars, initial, svcMtime, known, entries,
                   running, fired, refired, consumed, deletes,
                   log, stop, engine>>

\* second loop, one entry: skip a disabled entry, skip an entry whose trigger
\* fails to build, keep an unchanged entry's job, otherwise go on to (re)build.
sync_visit ==
    /\ svc = "visit"
    /\ IF LoopDone
       THEN /\ svc' = "done"
            /\ UNCHANGED <<idx, pass>>
       ELSE LET e == entries[idx]
            IN  IF ~e.enabled
                THEN /\ idx' = idx + 1
                     /\ UNCHANGED <<svc, pass>>
                ELSE IF ~Builds(e)
                THEN /\ idx' = AfterInvalid(idx)
                     /\ UNCHANGED <<svc, pass>>
                ELSE IF ~needs_update(e) /\ HasJob(e.id)
                THEN /\ idx' = idx + 1
                     /\ pass' = [pass EXCEPT !.kept = @ \cup {e.id}]
                     /\ UNCHANGED svc
                ELSE /\ svc' = "lookup"
                     /\ UNCHANGED <<idx, pass>>
    /\ UNCHANGED <<file, clock, fsNow, storeVars, initial, svcMtime, known, entries, pending,
                   jobs, running, fired, refired, consumed, deletes,
                   log, stop, engine>>

\* `if self.scheduler.get_job(e.id):`
sync_lookup ==
    /\ svc = "lookup"
    /\ svc' = IF HasJob(entries[idx].id) THEN "replace" ELSE "add"
    /\ UNCHANGED <<file, clock, fsNow, storeVars, initial, svcMtime, known, entries, pending,
                   idx, jobs, running, fired, refired, consumed, deletes, pass,
                   log, stop, engine>>

\* `self.scheduler.remove_job(e.id)`
sync_replace ==
    /\ svc = "replace"
    /\ IF HasJob(entries[idx].id)
       THEN /\ jobs' = Without(entries[idx].id)
            /\ svc' = "add"
            /\ pass' = [pass EXCEPT !.changed = TRUE]
       ELSE /\ Abort
            /\ UNCHANGED jobs
    /\ UNCHANGED <<file, clock, fsNow, storeVars, initial, svcMtime, known, entries, pending,
                   idx, running, fired, refired, consumed, deletes,
                   log, stop, engine>>

\* add_job(...): from here on the engine has the job and may fire it
sync_add ==
    /\ svc = "add"
    /\ LET e == entries[idx]
       IN  /\ jobs' = Without(e.id) \cup {NewJob(e)}
           /\ consumed' = consumed \ {e.id}
           /\ pass' = [pass EXCEPT !.changed = TRUE, !.added = @ \cup {e.id}]
    /\ svc' = "record"
    /\ UNCHANGED <<file, clock, fsNow, storeVars, initial, svcMtime, known, entries, pending,
                   idx, running, fired, refired, deletes,
                   log, stop, engine>>

sync_record_skipped ==
    /\ svc = "record"
    /\ idx' = idx + 1
    /\ svc' = "visit"
    /\ UNCHANGED <<file, clock, fsNow, storeVars, initial, svcMtime, known, entries, pending,
                   jobs, running, fired, refired, consumed, deletes, pass,
                   log, stop, engine>>

\* self._known_versions[e.id] = e.updated_at, and on to the next entry
sync_record ==
    /\ svc = "record"
    /\ known' = [known EXCEPT ![entries[idx].id] = entries[idx].updated_at]
    /\ idx' = idx + 1
    /\ svc' = "visit"
    /\ UNCHANGED <<file, clock, fsNow, storeVars, initial, svcMtime, entries, pending,
                   jobs, running, fired, refired, consumed, deletes, pass,
                   log, stop, engine>>

\* The pass returns: run_forever starts the watcher thread after the initial
\* sync; _watch_loop waits poll_seconds.
sync_return ==
    /\ svc = "done"
    /\ svc' = "sleep"
    /\ initial' = FALSE
    /\ pass' = [pass EXCEPT !.last = "completed", !.prev = pass.seen,
                            !.n = IF pass.n < 2 THEN pass.n + 1 ELSE 2]
    /\ UNCHANGED <<file, clock, fsNow, storeVars, svcMtime, known, entries, pending, idx,
                   jobs, running, fired, refired, consumed, deletes,
                   log, stop, engine>>

Next ==
    \/ \E id \in Ids, p \in Payloads : Upsert(id, p)
    \/ \E id \in Ids : Delete(id)
    \/ \E id \in Ids : Fire(id)
    \/ \E id \in Ids : Finish(id)
    \/ Start
    \/ Wake
    \/ Tick
    \/ sync_list
    \/ sync_get_jobs
    \/ sync_remove
    \/ sync_visit
    \/ sync_lookup
    \/ sync_replace
    \/ sync_add
    \/ sync_record
    \/ sync_return

Spec == Init /\ [][Next]_vars

----------------------------------------------------------------------------
\* The service with its main thread interrupted (Ctrl+C), over one schedule.

StopPayloads ==
    {p \in Payloads : /\ p.trigger \in {"date", "interval"}
                      /\ p.enabled
                      /\ p.crew = None
                      /\ p.interval_seconds \in {Nothing, Some(60)}}

\* a step of the thread running the pass: the main thread's initial sync,
\* then the schedules-watcher thread
WatcherStep ==
    \/ Start
    \/ Wake
    \/ Tick
    \/ sync_list
    \/ sync_get_jobs
    \/ sync_remove
    \/ sync_visit
    \/ sync_lookup
    \/ sync_replace
    \/ sync_add
    \/ sync_record
    \/ sync_return

NextStop ==
    \/ \E p \in StopPayloads : Upsert("s1", p)
    \/ Delete("s1")
    \/ \E id \in Ids : Fire(id)
    \/ \E id \in Ids : Finish(id)
    \/ WatcherStep
    \/ Interrupt
    \/ Shutdown

\* The threads of the service keep running; nothing is assumed about how long
\* a job execution takes.
SpecStop ==
    /\ Init
    /\ [][NextStop]_vars
    /\ WF_vars(WatcherStep)
    /\ WF_vars(Shutdown)

----------------------------------------------------------------------------
\* The run logs: executions that may complete within one second of each other.

NextLog ==
    \/ \E p \in StopPayloads : Upsert("s1", p)
    \/ \E id \in Ids : Fire(id)
    \/ \E id \in Ids : Finish(id)
    \/ \E id \in Ids : FinishSoon(id)
    \/ WatcherStep

SpecLog == Init /\ [][NextLog]_vars

----------------------------------------------------------------------------
\* ScheduleManagerTool._run, action "upsert"

\* Python truthiness of an Optional[str], `a or b`, and str()
Truthy(x) == x \notin {None, ""}
Or(a, b) == IF Truthy(a) THEN a ELSE b
str(x) == IF x = None THEN "None" ELSE x

\* payload.get(key, default) for an optional payload key
Get(field, default) == IF field = Nothing THEN default ELSE field[1]

\* crew = str(payload.get("crew", self.default_crew or "") or None) or None
crew_of(payload, default_crew) ==
    Or(str(Or(Get(payload.crew, Or(default_crew, "")), None)), None)

\* The JSON payloads given to the tool: the crew key is missing, null, empty
\* or names a crew; the trigger is a known kind or not.
ToolPayloads ==
    [id : Ids, crew : {Nothing, Some(None), Some(""), Some("crewB")},
     trigger : {"interval", "weekly"}]

DefaultCrews == {None, "crewA"}

\* _run with action "upsert": an unknown trigger kind returns a message; else
\* the entry is built and upsert_schedule(entry) is called.
ToolUpsert(payload, default_crew) ==
    IF payload.trigger \notin {"date", "interval", "cron"}
    THEN UNCHANGED vars
    ELSE Upsert(payload.id,
                [name |-> payload.id, crew |-> crew_of(payload, default_crew),
                 trigger |-> payload.trigger, run_at |-> None,
                 interval_seconds |-> Some(60), cron |-> Nothing, enabled |-> TRUE,
                 inputs |-> NoInputs])

NextTool ==
    \/ \E payload \in ToolPayloads, d \in DefaultCrews : ToolUpsert(payload, d)
    \/ \E id \in Ids : Delete(id)

SpecTool == Init /\ [][NextTool]_vars

----------------------------------------------------------------------------
\* The Trigger Builder over every combination of trigger payloads: the service
\* starts over a store that holds one enabled entry.

CronBadExpression == {<<"minute", "every">>}

BuilderPayloads ==
    [name : {"any"}, crew : {None}, trigger : {"date", "interval", "cron"},
     run_at : {None, "", "2025-01-01T00:00:00", "tomorrow"},
     interval_seconds : {Nothing, Some(0), Some(0 - 5), Some(60)},
     cron : {Nothing, Some(CronEmpty), Some(CronHourly), Some(CronBadExpression)},
     enabled : {TRUE}, inputs : {TopicX}]

\* the store after upsert(ScheduleEntry(id="s1", ...)) on a missing file
StoredOnce(p) ==
    [exists |-> TRUE, whole |-> TRUE,
     items |-> <<[ScheduleEntry("s1", p, 0) EXCEPT !.updated_at = 1]>>, mtime |-> 1]

InitBuild ==
    /\ file \in {StoredOnce(p) : p \in BuilderPayloads}
    /\ tmp = Missing
    /\ lock = None
    /\ clock = 1
    /\ fsNow = 1
    /\ pc = [p \in Procs |-> "idle"]
    /\ op = [p \in Procs |-> NoOp]
    /\ data = [p \in Procs |-> <<>>]
    /\ out = [p \in Procs |-> <<>>]
    /\ ret = [p \in Procs |-> NoRet]
    /\ calls = 0
    /\ crashes = 0
    /\ serial = file.items
    /\ lastWrite = [pre |-> <<>>, post |-> file.items]
    /\ InitService

\* run_forever up to the end of the initial sync
NextBuild ==
    \/ Start
    \/ sync_list
    \/ sync_get_jobs
    \/ sync_remove
    \/ sync_visit
    \/ sync_lookup
    \/ sync_add
    \/ sync_record
    \/ sync_return

SpecBuild == InitBuild /\ [][NextBuild]_vars

----------------------------------------------------------------------------
\* Claims about the store

Writing(p) == pc[p] \in {"writing", "replace"}

\* C1: concurrent upsert / delete calls leave the collection that running the
\* committed calls one at a time, in the order of their renames, would leave:
\* no call's effect is lost, and every stored record is one caller's whole entry.
C1_Serializable ==
    /\ _read(file) = serial
    /\ \A i \in 1..Len(file.items) :
         \E p \in Procs, t \in 0..clock, u \in 0..clock :
            file.items[i] = [ScheduleEntry(file.items[i].id, PayloadOf(p), t)
                                EXCEPT !.updated_at = u]

\* C1 witness: cli's upsert has just been renamed into place while ui, which
\* called upsert of the same id concurrently, waits for the lock, after an
\* earlier call already stored a record.
C1_Witness ==
    /\ pc["cli"] = "release" /\ op["cli"].kind = "upsert"
    /\ pc["ui"] = "acquire" /\ op["ui"].kind = "upsert"
    /\ op["ui"].id = op["cli"].id
    /\ Len(file.items) = 2

\* C2: the target file is at every instant (between any two steps of a write,
\* and after a crash at any step) a complete encoding of the collection before
\* or after the latest write begun; only the temporary file is ever partial.
C2_TargetComplete ==
    /\ file.whole
    /\ _read(file) \in {lastWrite.pre, lastWrite.post}
    /\ \A p \in Procs : Writing(p) => _read(file) \in {data[p], out[p]}

\* C2 witness: a writer crashed after opening the temporary file: the partial
\* temporary file is left behind and the target still holds a whole collection.
C2_Witness ==
    /\ tmp.exists /\ ~tmp.whole
    /\ crashes = 1
    /\ \A p \in Procs : pc[p] = "idle"
    /\ file.exists /\ file.whole /\ Len(file.items) = 1
    /\ lastWrite.post # file.items

\* C8: from an empty or missing store, after any interleaving of upsert and
\* delete calls no two records of the backing file have the same id.
C8_UniqueIds ==
    \A i, j \in 1..Len(file.items) : file.items[i].id = file.items[j].id => i = j

\* C8 witness: an upsert of an id that was already stored has been written
\* (the record was replaced, not appended), next to a record of another id.
C8_Witness ==
    \E p \in Procs :
        /\ pc[p] = "release" /\ op[p].kind = "upsert"
        /\ FirstIndex(data[p], op[p].id) # 0
        /\ Len(file.items) = 2
        /\ file.items = out[p]

\* C12: with no concurrent writer (the caller still holds the lock), what
\* list() returns after upsert(e) has exactly one entry with e's id; every
\* field of it other than updated_at is e's as the caller built it, whether or
\* not the id was stored before, and its updated_at is at least the value e
\* carried before the call.
C12_RoundTrip ==
    \A p \in Procs :
        (pc[p] = "release" /\ op[p].kind = "upsert") =>
            LET l == list(file)
                hits == {i \in 1..Len(l) : l[i].id = op[p].id}
            IN  /\ Cardinality(hits) = 1
                /\ \A i \in hits :
                      LET t == op[p].entry.created_at
                      IN  /\ [l[i] EXCEPT !.updated_at = t] =
                                 ScheduleEntry(op[p].id, PayloadOf(p), t)
                          /\ l[i].updated_at >= t
                /\ ret[p].kind = "upsert" /\ ret[p].entry = op[p].entry

\* C12 witness: an upsert has replaced a record that another caller stored
\* earlier under the same id with another payload and an older created_at.
C12_Witness ==
    \E p \in Procs :
        /\ pc[p] = "release" /\ op[p].kind = "upsert"
        /\ \E k \in 1..Len(data[p]) :
              /\ data[p][k].id = op[p].id
              /\ data[p][k].name # op[p].entry.name
              /\ data[p][k].created_at < op[p].entry.created_at
        /\ \E i \in 1..Len(file.items) : file.items[i] = op[p].entry

\* a delete call that has read the store and not yet returned
Deleting(p) == op[p].kind = "delete" /\ pc[p] \in {"write", "writing", "replace", "release"}

C13_Returned(p) ==
    (op[p].kind = "delete" /\ pc[p] = "release") =>
        /\ ret[p].kind = "delete"
        /\ ret[p].changed = (FirstIndex(data[p], op[p].id) # 0)
        /\ FirstIndex(_read(file), op[p].id) = 0

C13_NoWrite(p) ==
    /\ (op[p].kind = "delete" /\ pc[p] = "read" /\ pc'[p] \notin {"read", "idle"}
            /\ FirstIndex(_read(file), op[p].id) = 0)
          => (pc'[p] = "release" /\ ret'[p].kind = "delete" /\ ~ret'[p].changed)
    /\ (Deleting(p) /\ ~ret[p].changed) => (file' = file /\ tmp' = tmp)

\* C13: delete(id) returns true exactly when a record with that id was in the
\* store it read, and when it returns no record with that id remains; a delete
\* that finds no such record (a repeated delete) returns false and writes
\* nothing: the backing file and its modification time stay as they were.
C13_Delete ==
    /\ [](\A p \in Procs : C13_Returned(p))
    /\ [][\A p \in Procs : C13_NoWrite(p)]_vars

\* C13 witness: a delete is returning false for an id whose record the latest
\* write (an earlier delete of the same id) removed.
C13_Witness ==
    \E p \in Procs :
        /\ op[p].kind = "delete" /\ pc[p] = "release" /\ ~ret[p].changed
        /\ FirstIndex(lastWrite.pre, op[p].id) # 0
        /\ FirstIndex(lastWrite.post, op[p].id) = 0
        /\ file.exists /\ file.items = lastWrite.post

\* C15: for every id, whatever processes issue the upserts, the updated_at of
\* the record stored under that id never decreases from one stored version of
\* the entry to the next.
C15_UpdatedAtMonotone ==
    [][\A i \in 1..Len(file.items), k \in 1..Len(file'.items) :
          file.items[i].id = file'.items[k].id =>
              file'.items[k].updated_at >= file.items[i].updated_at]_vars

\* C15 witness: the third stored version of an entry, each version written
\* after the one before it, the last one over a version of the other caller.
C15_Witness ==
    \E p \in Procs :
        /\ pc[p] = "release" /\ op[p].kind = "upsert"
        /\ \E k \in 1..Len(data[p]) :
              /\ data[p][k].id = op[p].id
              /\ data[p][k].updated_at = 2
              /\ data[p][k].crew # op[p].entry.crew
        /\ \E i \in 1..Len(file.items) :
              file.items[i].id = op[p].id /\ file.items[i].updated_at = 3

\* C16: list() does not take the store lock: a list() call is never kept
\* waiting by another process that holds the lock inside upsert or delete, and
\* what it returns is the whole collection before or after the latest write.
C16_ListTakesNoLock ==
    \A p \in Procs :
        /\ (op[p].kind = "list" /\ pc[p] = "acquire") => ENABLED Acquire(p)
        /\ (op[p].kind = "list" /\ pc[p] = "release") =>
               ret[p].items \in {lastWrite.pre, lastWrite.post}

\* the read-modify-write section of upsert / delete (and list's read)
InSection(p) == pc[p] \in {"read", "write", "writing", "replace", "release"}

C17_Mutex ==
    /\ Cardinality({p \in Procs : InSection(p)}) <= 1
    /\ \A p \in Procs : InSection(p) => lock = p

\* C17: at most one process is inside the read-modify-write section at a
\* time; a caller that finds the lock held waits (there is no timeout), and
\* when every lock holder finishes, every waiting call eventually acquires
\* the lock, completes and releases it.
C17_LockProgress ==
    /\ []C17_Mutex
    /\ \A p \in Procs :
          /\ (pc[p] = "acquire") ~> (lock = p)
          /\ (lock = p) ~> (pc[p] = "idle" /\ lock # p)

\* C17 witness: an upsert or delete call waits for the lock while the other
\* process is in the middle of its write.
C17_Witness ==
    \E p, q \in Procs :
        /\ p # q
        /\ pc[p] = "acquire" /\ op[p].kind \in {"upsert", "delete"}
        /\ lock = q /\ pc[q] = "writing"

\* the backing file is missing or does not parse as a whole
Bad(f) == ~f.exists \/ ~f.whole

\* C18: over a backing file that is missing or does not parse as a whole,
\* list() returns the empty collection, delete returns false and writes
\* nothing, and upsert behaves as on an empty store: the file it leaves holds
\* exactly the upserted entry.
C18_BadFileReadsEmpty ==
    \A p \in Procs :
        /\ (op[p].kind = "list" /\ pc[p] = "release" /\ Bad(file))
              => ret[p].kind = "list" /\ ret[p].items = <<>>
        /\ (op[p].kind = "delete" /\ pc[p] = "release" /\ Bad(file))
              => ret[p].kind = "delete" /\ ~ret[p].changed
        /\ Deleting(p) /\ pc[p] # "release" => ~Bad(file)
        /\ (op[p].kind = "upsert" /\ pc[p] \in {"write", "writing", "replace"} /\ Bad(file))
              => out[p] = <<op[p].entry>>
        /\ (op[p].kind = "upsert" /\ pc[p] = "replace") => tmp.whole /\ tmp.items = out[p]
        /\ (op[p].kind = "upsert" /\ pc[p] = "release") =>
              file.exists /\ file.whole /\ file.items = out[p]

\* C18 witness: an upsert that read an unparsable file is about to rename a
\* collection of exactly its own entry over it.
C18_Witness ==
    \E p \in Procs :
        /\ op[p].kind = "upsert" /\ pc[p] = "replace"
        /\ file.exists /\ ~file.whole /\ file.items # <<>>
        /\ tmp.whole /\ tmp.items = <<op[p].entry>>

----------------------------------------------------------------------------
\* Claims about the service

Enabled(i) == entries[i].enabled
Buildable(i) == entries[i].enabled /\ Builds(entries[i])

\* C3: when a reconciliation pass completes, every job in the engine has the
\* id of an entry the pass read from the store that is enabled and whose
\* current trigger fields build.
C3_JobsOnlyForActive ==
    svc = "done" =>
        \A j \in jobs : \E i \in 1..Len(entries) : entries[i].id = j.id /\ Buildable(i)

\* C4: a date (one-shot) entry is executed at most once per version
\* (updated_at) within one service instance.
C4_DateAtMostOnce == \A f \in refired : f[3] # "date"

\* C5: no update is missed: whenever the service is waiting with the
\* remembered modification time equal to the file's current one, the last
\* pass ran to completion and it ran over the file's current content.
C5_NoMissedUpdate ==
    (svc = "sleep" /\ svcMtime = Stat(file)) =>
        (pass.last = "completed" /\ pass.seen = _read(file))

\* C6: when a pass completes, the job of every entry the pass read was built
\* from that entry's current version (its current trigger and inputs), so no
\* later firing uses an older trigger or older inputs.
C6_JobFromCurrentVersion ==
    svc = "done" =>
        \A i \in 1..Len(entries) : \A j \in jobs :
            j.id = entries[i].id => j.ver = entries[i].updated_at

C9_SecondPassChangesNothing ==
    (svc = "done" /\ pass.n >= 1 /\ pass.seen = pass.prev) => ~pass.changed

\* C10: an entry whose trigger fails to build does not stop the pass: the pass
\* adds no job for it, and every other enabled entry with a buildable trigger,
\* listed before or after it, is scheduled (added, or kept unchanged) in the
\* same pass.
C10_BuildFailureIsolated ==
    svc = "done" =>
        \A i \in 1..Len(entries) :
            (Enabled(i) /\ ~Builds(entries[i])) =>
                /\ entries[i].id \notin pass.added
                /\ \A k \in 1..Len(entries) :
                      (k # i /\ Buildable(k)) => entries[k].id \in pass.added \cup pass.kept

\* C10 witness: a pass completes over a store whose first entry fails to build
\* (cron with an empty mapping) and whose second entry was scheduled in it.
C10_Witness ==
    /\ svc = "done"
    /\ Len(entries) = 2
    /\ Enabled(1) /\ entries[1].trigger = "cron" /\ ~Builds(entries[1])
    /\ Buildable(2)
    /\ entries[2].id \in pass.added
    /\ HasJob(entries[2].id) /\ ~HasJob(entries[1].id)

\* C11: at any instant at most one execution of a schedule id is in progress,
\* also when a pass removed and re-added that id's job while an execution of
\* it was running: a firing that comes due meanwhile starts nothing.
C11_OneExecutionPerId ==
    \A id \in Ids : Cardinality({x \in running : x.id = id}) <= 1

\* C11 witness: an execution started from one version of an entry is still in
\* progress while the engine holds the job the pass rebuilt from a newer
\* version of the same id.
C11_Witness ==
    \E x \in running, j \in jobs :
        /\ x.id = j.id
        /\ x.ver # j.ver
        /\ known[j.id] = j.ver
        /\ j.trigger.kind = "interval"

\* C14: a failing job execution is captured as not-ok with the error trace and
\* written to the firing's run log; the step raises nothing into the service:
\* the engine's jobs (the failing id's and every other), the remembered
\* versions and the position and state of the poll loop and pass are as before.
C14_FailureContained ==
    [][\A id \in Ids :
          (IsRunning(id) /\ {x \in running' : x.id = id} = {} /\ ~log'.ok) =>
              /\ log'.id = id /\ ~log'.ok /\ log'.out = Traceback
              /\ jobs' = jobs
              /\ known' = known
              /\ <<svc, initial, svcMtime, entries, pending, idx, stop, engine>>' =
                    <<svc, initial, svcMtime, entries, pending, idx, stop, engine>>
              /\ running' = {x \in running : x.id # id}]_vars

\* C14 witness: the last run log records a failed execution of an interval
\* entry; its job and the job of another entry are still in the engine, and
\* the poll loop is waiting after a completed pass.
C14_Witness ==
    /\ ~log.ok /\ log.out = Traceback
    /\ HasJob(log.id) /\ JobOf(log.id).trigger.kind = "interval"
    /\ \E j \in jobs : j.id # log.id
    /\ svc = "sleep" /\ pass.last = "completed"

\* C19 as stated: once the stop signal is set the poll loop starts no
\* further pass and terminates, and the engine's shutdown completes without
\* waiting for executions in progress.
C19_NoPassAfterStop ==
    /\ [][stop => ~(svc # "list" /\ svc' = "list")]_vars
    /\ stop ~> (svc = "exited")
    /\ stop ~> (engine = "stopped")

\* C19 as amended: once the stop signal is set the loop condition passes no
\* more, so the only pass that can still start is the one of an iteration
\* that had tested the stop flag before the signal; the loop then terminates,
\* and the engine's shutdown completes whether or not executions are in
\* progress.
C19_StopsAfterIterationUnderWay ==
    /\ [][stop => (svc' = "tick" => svc = "tick")]_vars
    /\ [][(stop /\ svc # "list" /\ svc' = "list") => svc = "tick"]_vars
    /\ stop ~> (svc = "exited")
    /\ stop ~> (engine = "stopped")

\* C19 witness: the loop has exited and the engine is shut down while an
\* execution is still in progress; the pass that was under way or about to
\* start at the signal has added a job after the shutdown.
C19_Witness ==
    /\ stop /\ svc = "exited" /\ engine = "stopped"
    /\ running # {}
    /\ jobs # {}

\* the trigger kinds whose payload the entry carries
Populated(e) ==
    {k \in {"date", "interval", "cron"} :
        \/ k = "date" /\ e.run_at # None
        \/ k = "interval" /\ e.interval_seconds # Nothing
        \/ k = "cron" /\ e.cron # Nothing}

\* C20: the Trigger Builder rejects every entry whose populated trigger
\* payloads are not exactly the one of its trigger kind (an interval entry
\* that also carries run_at or a cron mapping is not built).
C20_RejectsMixedPayloads ==
    \A i \in 1..Len(entries) :
        Populated(entries[i]) # {entries[i].trigger} => ~Builds(entries[i])

\* the payload of the entry's own kind is valid, in the claim's words: cron
\* asks for no more than a non-empty mapping
ValidOwnAsStated(e) ==
    \/ e.trigger = "date" /\ e.run_at \in IsoStrings
    \/ e.trigger = "interval" /\ e.interval_seconds # Nothing /\ e.interval_seconds[1] > 0
    \/ e.trigger = "cron" /\ e.cron # Nothing /\ e.cron[1] # {}

\* ... and with a cron mapping the cron trigger accepts
ValidOwn(e) ==
    \/ e.trigger = "date" /\ e.run_at \in IsoStrings
    \/ e.trigger = "interval" /\ e.interval_seconds # Nothing /\ e.interval_seconds[1] > 0
    \/ e.trigger = "cron" /\ e.cron # Nothing /\ e.cron[1] # {}
          /\ \A kv \in e.cron[1] : kv[1] \in CronFieldNames /\ kv[2] \in CronExpressions

\* the trigger the entry's own payload describes
TriggerOfOwn(e) ==
    [kind |-> e.trigger,
     run_date |-> IF e.trigger = "date" THEN e.run_at ELSE "",
     seconds |-> IF e.trigger = "interval" THEN e.interval_seconds[1] ELSE 0,
     fields |-> IF e.trigger = "cron" THEN e.cron[1] ELSE {}]

\* a pass over the one stored entry has left the store, the engine and the
\* remembered versions as it found them
C21_NoEffect ==
    /\ jobs = {}
    /\ known = [i \in Ids |-> 0]
    /\ file.items = entries /\ file.mtime = 1 /\ tmp = Missing

\* C21 as stated: the Trigger Builder returns the trigger of the entry's own
\* payload when that payload is valid (cron: any non-empty mapping) and a
\* validation error, with no effect on store, engine or remembered versions,
\* when it is missing or invalid.
C21_BuildsIffValidAsStated ==
    \A i \in 1..Len(entries) :
        /\ ValidOwnAsStated(entries[i]) => _build_trigger(entries[i]) = TriggerOfOwn(entries[i])
        /\ ~ValidOwnAsStated(entries[i]) =>
              /\ _build_trigger(entries[i]) = Err
              /\ svc = "done" => C21_NoEffect

\* C21 as amended: the same, where a valid cron payload is a non-empty mapping
\* whose field names and expressions the cron trigger accepts.
C21_BuildsIffValid ==
    \A i \in 1..Len(entries) :
        /\ ValidOwn(entries[i]) =>
              /\ _build_trigger(entries[i]) = TriggerOfOwn(entries[i])
              /\ svc = "done" => \E j \in jobs : j.trigger = TriggerOfOwn(entries[i])
        /\ ~ValidOwn(entries[i]) =>
              /\ _build_trigger(entries[i]) = Err
              /\ svc = "done" => C21_NoEffect

\* C21 witness: the initial sync has completed over an interval entry with a
\* negative interval_seconds (and a valid run_at the builder must not fall
\* back on), leaving no job and no remembered version.
C21_Witness ==
    /\ svc = "done"
    /\ Len(entries) = 1
    /\ entries[1].trigger = "interval" /\ entries[1].interval_seconds = Some(0 - 5)
    /\ entries[1].run_at \in IsoStrings
    /\ C21_NoEffect

\* C22: on every firing the inputs mapping that reaches the crew's kickoff is
\* the inputs mapping of the entry version the job was built from, unchanged,
\* the empty mapping included.
C22_InputsVerbatim ==
    \A x \in running : \A i \in 1..Len(file.items) :
        (file.items[i].id = x.id /\ file.items[i].updated_at = x.ver) =>
            x.kickoff = file.items[i].inputs

\* C23: every completed firing leaves a log file of its own: no firing writes
\* its record to the file name another firing wrote (here: the firing before
\* it), so no firing's record is overwritten.
C23_OwnLogFile == ~log.again

\* a delete call has removed the record with this id and is about to return
Deleted(id) ==
    \E p \in Procs :
        op[p].kind = "delete" /\ op[p].id = id /\ pc[p] = "release" /\ ret[p].changed

\* C24: once an entry with a given id has been deleted, no later upsert
\* creates an entry with that id: the id never appears in the store again.
C24_IdNeverReused ==
    \A id \in Ids : [](Deleted(id) => [](FirstIndex(_read(file), id) = 0))

\* the record stored under this id
Stored(f, id) == f.items[FirstIndex(f.items, id)]

C25_Crew(payload, default_crew) ==
    (ToolUpsert(payload, default_crew) /\ file' # file) =>
        /\ (payload.crew = Nothing /\ default_crew = None) =>
               Stored(file', payload.id).crew = None
        /\ (payload.crew # Nothing /\ Truthy(payload.crew[1])) =>
               Stored(file', payload.id).crew = payload.crew[1]

\* C25: a tool upsert whose payload omits crew, with no default_crew
\* configured, stores an entry whose crew is None; a payload that names a crew
\* stores exactly that name.
C25_ToolCrew ==
    [][\A payload \in ToolPayloads, d \in DefaultCrews : C25_Crew(payload, d)]_vars

\* C26: a pass running concurrently with the engine processes every entry:
\* when the engine has removed a job on its own between the pass looking it
\* up and the pass removing it, the pass still goes on from its remove_job
\* call to the rest of its work and never leaves the pass there.
C26_PassGoesOn ==
    [][(svc \in {"remove", "replace"} /\ svc' # svc) => svc' \in {"visit", "add"}]_vars

\* the step of the watcher out of the loop body's stat call
C27_TickStep ==
    (svc = "tick" /\ svc' # svc) =>
        IF Stat(file) = svcMtime
        THEN /\ svc' = "sleep"
             /\ entries' = entries /\ jobs' = jobs /\ known' = known
             /\ svcMtime' = svcMtime
        ELSE /\ svc' = "list"
             /\ svcMtime' = Stat(file)

\* a pass is entered from a tick (or from run_forever's start) only, and it
\* reads the store once, on entry
C27_OnePass ==
    /\ (svc' = "list" /\ svc # "list") => svc \in {"tick", "start"}
    /\ (svc = "list" /\ svc' # svc) => (svc' = "getjobs" /\ entries' = list(file))
    /\ (svc \notin {"list", "tick"}) => svcMtime' = svcMtime

\* C27: a poll tick that finds the file modification time equal to the
\* remembered one does not read the store and leaves the engine's jobs and
\* the remembered versions unchanged; a tick that finds it different starts
\* exactly one pass (one call of _sync_jobs_from_store, which reads the store
\* once), whether that pass returns or is left by an exception.
C27_TickFrame == [][C27_TickStep /\ C27_OnePass]_vars

\* C27 witness: after a completed pass the watcher is in its loop body over a
\* file whose modification time is the remembered one, with jobs in the engine.
C27_Witness ==
    /\ svc = "tick" /\ file.exists /\ Stat(file) = svcMtime
    /\ jobs # {} /\ pass.last = "completed"

\* the item is a record with this id
HasId(it, id) == "id" \in DOMAIN it /\ it.id = id

\* upsert(e) returned (or raised) over the collection `before`, leaving `after`
C28_Upsert(before, after, e) ==
    IF \E i \in 1..Len(before) : HasId(before[i], e.id)
    THEN LET i == CHOOSE k \in 1..Len(before) :
                      HasId(before[k], e.id) /\ \A j \in 1..(k - 1) : ~HasId(before[j], e.id)
         IN  /\ Len(after) = Len(before)
             /\ after[i] = e
             /\ \A k \in 1..Len(before) : k # i => after[k] = before[k]
    ELSE after = Append(before, e)

\* delete(id) returned (or raised) over the collection `before`, leaving `after`
C28_Delete(before, after, id) ==
    after = SelectSeq(before, LAMBDA it : ~HasId(it, id))

\* C28: upsert(e) changes only the record with e's id: every other record of
\* the file, the records list() drops as malformed included, is kept unchanged
\* and in order; a replaced record keeps its position and a new record is
\* appended last. delete(id) leaves every record with another id unchanged and
\* in order (and no record with that id).
C28_OnlyThatRecord ==
    \A p \in Procs :
        pc[p] = "release" =>
            /\ op[p].kind = "upsert" => C28_Upsert(data[p], file.items, op[p].entry)
            /\ op[p].kind = "delete" => C28_Delete(data[p], file.items, op[p].id)

\* an upsert / delete call is returning with the exception of a failed write
Failed(p) == pc[p] = "release" /\ ret[p].kind = "error"

C29_Step(p) ==
    /\ _write_fails(p) => (file' = file /\ Failed(p)')
    /\ (pc[p] = "release" /\ pc'[p] = "idle") =>
           (lock' = None /\ ret'[p] = ret[p] /\ file' = file)

\* C29: when writing the temporary file or the replace step fails during
\* upsert or delete, the error is raised to the caller, the target file still
\* holds the complete collection the call read, and the lock is released, so
\* that every later call waiting for the lock goes on.
C29_WriteFailure ==
    /\ [][\A p \in Procs : C29_Step(p)]_vars
    /\ [](\A p \in Procs : Failed(p) =>
             (_read(file) = data[p] /\ (file.exists => file.whole)))
    /\ \A p \in Procs : Failed(p) ~> (lock = None)
    /\ \A p \in Procs : (pc[p] = "acquire") ~> (pc[p] = "read")

\* C29 witness: a call over a non-empty store is returning with the error of a
\* write that failed part-way through the temporary file, while the other
\* process waits for the lock.
C29_Witness ==
    \E p \in Procs, q \in Procs :
        /\ Failed(p) /\ op[p].kind \in {"upsert", "delete"}
        /\ Len(data[p]) > 0 /\ _read(file) = data[p]
        /\ tmp.exists /\ ~tmp.whole
        /\ lock = p /\ pc[q] = "acquire"

\* the pass has added this id's job and not yet recorded its version
Recording(id) == svc = "record" /\ entries[idx].id = id

\* C30 as stated: in every reachable state each job in the engine has its id
\* recorded in the remembered versions, with the updated_at of the entry
\* version the job was built from.
C30_JobsAreRecordedAsStated ==
    \A j \in jobs : known[j.id] # 0 /\ known[j.id] = j.ver

C30_Jobs ==
    \A j \in jobs : Recording(j.id) \/ (known[j.id] # 0 /\ known[j.id] = j.ver)

C30_Step ==
    \A id \in Ids :
        known'[id] # known[id] =>
            (Recording(id) /\ known'[id] = entries[idx].updated_at /\ svc' = "visit")

\* C30: except while a pass is between adding a job and recording its
\* version, each job in the engine has its id in the remembered versions and
\* was built from the entry version whose updated_at is the remembered value;
\* the remembered value of an id changes only in the step that follows the
\* (re)building of that id's job; a fresh instance starts with nothing
\* remembered.
C30_JobsAreRecorded ==
    /\ []C30_Jobs
    /\ [][C30_Step]_vars
    /\ [](svc = "start" => (jobs = {} /\ \A id \in Ids : known[id] = 0))

\* C30 witness: in a pass after the first, the engine holds a job built from
\* an entry's second version and recorded under that version, and the pass has
\* moved on.
C30_Witness ==
    /\ svc = "visit" /\ pass.n >= 1
    /\ \E j \in jobs : j.ver = 2 /\ known[j.id] = 2

====
